---- MODULE Spec2Model ----
(***************************************************************************)
(* rsa-gen.py: Miller-Rabin primality test (es_primo), random prime        *)
(* generation (generar_primo), RSA key derivation (generar_claves) and the *)
(* block-wise textbook encryption (cifrar_mensaje / descifrar_mensaje).    *)
(*                                                                         *)
(* Three specifications share the variables:                               *)
(*   SpecPrime  es_primo(n, k) on every n in 0..MaxN, k in 0..MaxRounds    *)
(*   SpecKeys   generar_claves(bits) for bits in 1..MaxBits                *)
(*              (FairSpecKeys adds the fairness of the random draws)       *)
(*   SpecCrypt  cifrar_mensaje followed by descifrar_mensaje               *)
(***************************************************************************)
EXTENDS Integers, Sequences, FiniteSets, TLC

\* ---------------------------------------------------------------- bounds
\* largest integer handed to es_primo in SpecPrime
MaxN == 100
\* largest number of rounds k handed to es_primo in SpecPrime
MaxRounds == 6
\* largest key size handed to generar_claves in SpecKeys
MaxBits == 10
\* largest value of random.getrandbits used for the keys of SpecCrypt
MaxRand == 7
\* longest message (in characters) of SpecCrypt
MaxLen == 2

\* ------------------------------------------------------ program constants
\* e = 65537
DefaultE == 65537
\* def es_primo(n, k=5)
DefaultK == 5

VARIABLES
    pc,          \* control location
    fase,        \* who called es_primo: "main", or the prime being drawn "p"/"q"
    error,       \* the exception raised, outermost message first; <<>> if none
    \* es_primo's frame
    n, k, d, s, i, a, x, ret,
    \* generar_claves' frame and its result
    bits, p, q, phi, e, clave_publica, clave_privada,
    \* cifrar_mensaje / descifrar_mensaje
    mensaje, clave_publica_original, bloque_max, bloques, cifrados,
    bloques_d, salida

varsPrimo == <<n, k, d, s, i, a, x, ret>>
varsClaves == <<bits, p, q, phi, e, clave_publica, clave_privada>>
varsCifra == <<mensaje, clave_publica_original, bloque_max, bloques, cifrados,
               bloques_d, salida>>
vars == <<pc, fase, error, varsPrimo, varsClaves, varsCifra>>

\* Python's None (and the empty tuple: both are falsy)
Ninguna == <<>>

\* ------------------------------------------------------------ arithmetic
\* the value of a one-element set: CHOOSE over {F(v) : v \in {expr}} hands
\* the value of expr, computed once, to F
Unico(S) == CHOOSE r \in S : TRUE

\* exact (u * v) % m for u, v < m; the product is formed by doubling once
\* it would leave the checker's integers, Python's integers being unbounded
RECURSIVE MulModDoble(_, _, _)
MulModDoble(u, v, m) ==
    IF v = 0 THEN 0
    ELSE Unico({ IF v % 2 = 1 THEN (h + h + u) % m ELSE (h + h) % m :
                 h \in {MulModDoble(u, v \div 2, m)} })

MulMod(u, v, m) ==
    IF m < 46341 THEN (u * v) % m ELSE MulModDoble(u % m, v % m, m)

\* pow(b, ex, m) for ex >= 0, by squaring
RECURSIVE ModPow(_, _, _)
ModPow(b, ex, m) ==
    IF ex = 0 THEN 1 % m
    ELSE Unico({ IF ex % 2 = 1 THEN MulMod(sq, b % m, m) ELSE sq :
                 sq \in {MulMod(h, h, m) : h \in {ModPow(b, ex \div 2, m)}} })

\* math.gcd
RECURSIVE Gcd(_, _)
Gcd(u, v) == IF v = 0 THEN u ELSE Gcd(v, u % v)

\* extended Euclid: <<g, c, c2>> with c * u + c2 * v = g
RECURSIVE ExtEuclides(_, _)
ExtEuclides(u, v) ==
    IF v = 0 THEN <<u, 1, 0>>
    ELSE Unico({ <<r[1], r[3], r[2] - (u \div v) * r[3]>> :
                 r \in {ExtEuclides(v, u % v)} })

\* int.bit_length
RECURSIVE BitLength(_)
BitLength(v) == IF v = 0 THEN 0 ELSE 1 + BitLength(v \div 2)

\* 1 << sh
RECURSIVE Pot2(_)
Pot2(sh) == IF sh = 0 THEN 1 ELSE 2 * Pot2(sh - 1)

\* u | v on non-negative integers
RECURSIVE BitOr(_, _)
BitOr(u, v) ==
    IF u = 0 THEN v
    ELSE IF v = 0 THEN u
    ELSE 2 * BitOr(u \div 2, v \div 2) + (IF u % 2 = 1 \/ v % 2 = 1 THEN 1 ELSE 0)

\* ---------------------------------------------------------------- es_primo
\* es_primo's frame before a call and after its return (its locals are gone)
SinPrimo ==
    /\ n = 0
    /\ k = 0
    /\ d = 0
    /\ s = 0
    /\ i = 0
    /\ a = 0
    /\ x = 0
    /\ ret = FALSE

\* while d % 2 == 0: d //= 2; s += 1   (from d = n - 1, s = 0)
RECURSIVE Descomponer(_, _)
Descomponer(dd, ss) ==
    IF dd % 2 = 0 THEN Descomponer(dd \div 2, ss + 1) ELSE <<dd, ss>>

\* if x == 1 or x == n - 1: continue
PasaDirectoSinMenosUno(xx, nn) == xx = 1
PasaDirecto(xx, nn) == xx = 1 \/ xx = nn - 1

\* for __ in range(s - 1): the number of squarings tried
VecesCuadradoCorto(ss) == ss - 2
VecesCuadrado(ss) == ss - 1

\* the inner for/else from the value xx: <<final x, whether the loop hit
\* n - 1 and broke>>
RECURSIVE Cuadrados(_, _, _)
Cuadrados(xx, nn, veces) ==
    IF veces <= 0 THEN <<xx, FALSE>>
    ELSE Unico({ IF y = nn - 1 THEN <<y, TRUE>> ELSE Cuadrados(y, nn, veces - 1) :
                 y \in {ModPow(xx, 2, nn)} })

\* one round with witness aa: <<final x, whether the round passes>>
Ronda(nn, dd, ss, aa) ==
    Unico({ IF PasaDirecto(x0, nn) THEN <<x0, TRUE>>
            ELSE Cuadrados(x0, nn, VecesCuadrado(ss)) :
            x0 \in {ModPow(aa, dd, nn)} })

\* lines 20-28: the early returns and the decomposition of n - 1
EsPrimoInicio ==
    /\ pc = "es_primo"
    /\ IF n <= 1
         THEN /\ ret' = FALSE
              /\ pc' = "ret"
              /\ UNCHANGED <<d, s>>
         ELSE IF n <= 3
         THEN /\ ret' = TRUE
              /\ pc' = "ret"
              /\ UNCHANGED <<d, s>>
         ELSE /\ d' = Descomponer(n - 1, 0)[1]
              /\ s' = Descomponer(n - 1, 0)[2]
              /\ pc' = "rondas"
              /\ UNCHANGED ret
    /\ i' = 0
    /\ UNCHANGED <<n, k, a, x, fase, error, varsClaves, varsCifra>>

\* lines 29-39: one iteration of for _ in range(k)
EsPrimoRonda ==
    /\ pc = "rondas"
    /\ i < k
    /\ \E aa \in 2..(n - 2) :
          \E r \in {Ronda(n, d, s, aa)} :
             /\ a' = aa
             /\ x' = r[1]
             /\ IF r[2]
                  THEN /\ i' = i + 1
                       /\ UNCHANGED <<pc, ret>>
                  ELSE /\ ret' = FALSE
                       /\ pc' = "ret"
                       /\ UNCHANGED i
    /\ UNCHANGED <<n, k, d, s, fase, error, varsClaves, varsCifra>>

\* line 40: every round passed
EsPrimoFin ==
    /\ pc = "rondas"
    /\ i = k
    /\ ret' = TRUE
    /\ pc' = "ret"
    /\ UNCHANGED <<n, k, d, s, i, a, x, fase, error, varsClaves, varsCifra>>

\* ------------------------------------------------------------ generar_primo
\* p |= (1 << bits - 1) | 1
ForzarBitsSoloImpar(r, b) == BitOr(r, 1)
ForzarBits(r, b) == BitOr(r, BitOr(Pot2(b - 1), 1))

\* lines 59-61: draw a candidate and call es_primo(p) with the default k.
\* With b = 0 the shift count of 1 << bits - 1 is negative: ValueError.
GenerarPrimoSortear ==
    /\ pc = "generar_primo"
    /\ LET b == bits \div 2
       IN IF b = 0
            THEN /\ error' = <<"negative shift count">>
                 /\ pc' = "fin"
                 /\ UNCHANGED <<n, k>>
            ELSE /\ \E r \in 0..(Pot2(b) - 1) : n' = ForzarBits(r, b)
                 /\ k' = DefaultK
                 /\ pc' = "es_primo"
                 /\ UNCHANGED error
    /\ UNCHANGED <<d, s, i, a, x, ret, fase, varsClaves, varsCifra>>

\* lines 61-62 and 80-81: es_primo returned to generar_primo (its frame is
\* dropped); on True the candidate is returned to generar_claves (p first,
\* then q), else redraw
GenerarPrimoProbar ==
    /\ pc = "ret"
    /\ fase \in {"p", "q"}
    /\ IF ~ret
         THEN /\ pc' = "generar_primo"
              /\ UNCHANGED <<fase, p, q>>
         ELSE IF fase = "p"
         THEN /\ p' = n
              /\ fase' = "q"
              /\ pc' = "generar_primo"
              /\ UNCHANGED q
         ELSE /\ q' = n
              /\ pc' = "derivar"
              /\ UNCHANGED <<fase, p>>
    /\ n' = 0 /\ k' = 0 /\ d' = 0 /\ s' = 0 /\ i' = 0 /\ a' = 0 /\ x' = 0
    /\ ret' = FALSE
    /\ UNCHANGED <<error, bits, phi, e, clave_publica, clave_privada, varsCifra>>

\* ----------------------------------------------------------- generar_claves
\* phi = (p - 1) * (q - 1)
TotienteMal(pp, qq) == pp * qq - 1
Totiente(pp, qq) == (pp - 1) * (qq - 1)

\* e = 65537; while gcd(e, phi) != 1: e = random.randint(2, phi - 1)
\* the values the loop can end with
ExponentesPosibles(ph) ==
    IF Gcd(DefaultE, ph) = 1 THEN {DefaultE}
    ELSE {c \in 2..(ph - 1) : Gcd(c, ph) = 1}

\* d = pow(e, -1, phi)
InversoModular(ee, ph) == ExtEuclides(ee % ph, ph)[2] % ph

\* (e, n), (d, n) for the primes pp, qq and the exponent ee
ClavePublica(pp, qq, ee) == <<ee, pp * qq>>
ClavePrivada(pp, qq, ee) == <<InversoModular(ee, Totiente(pp, qq)), pp * qq>>

\* lines 82-88
GenerarClavesDerivar ==
    /\ pc = "derivar"
    /\ phi' = Totiente(p, q)
    /\ e' \in ExponentesPosibles(Totiente(p, q))
    /\ clave_publica' = ClavePublica(p, q, e')
    /\ clave_privada' = ClavePrivada(p, q, e')
    /\ pc' = "fin"
    /\ UNCHANGED <<fase, error, varsPrimo, bits, p, q, varsCifra>>

\* ------------------------------------------------------------------- codec
Min(u, v) == IF u < v THEN u ELSE v
Max(u, v) == IF u > v THEN u ELSE v

\* U+FFFD, what errors='replace' puts for an invalid sequence
Reemplazo == 65533

\* str.encode('utf-8') of one code point (no surrogates)
Utf8Caracter(c) ==
    IF c < 128 THEN <<c>>
    ELSE IF c < 2048 THEN <<192 + (c \div 64), 128 + (c % 64)>>
    ELSE IF c < 65536
      THEN <<224 + (c \div 4096), 128 + ((c \div 64) % 64), 128 + (c % 64)>>
    ELSE <<240 + (c \div 262144), 128 + ((c \div 4096) % 64),
           128 + ((c \div 64) % 64), 128 + (c % 64)>>

\* mensaje.encode('utf-8')
RECURSIVE Utf8Codificar(_)
Utf8Codificar(texto) ==
    IF texto = <<>> THEN <<>>
    ELSE Utf8Caracter(Head(texto)) \o Utf8Codificar(Tail(texto))

\* the byte at position j (1-based) is a continuation byte in lo..hi
EsContinuacion(b, j, lo, hi) == j <= Len(b) /\ b[j] >= lo /\ b[j] <= hi

\* bytes.decode('utf-8', errors='replace') at position pos:
\* <<code point, bytes consumed>>; each maximal invalid prefix gives U+FFFD
Utf8Uno(b, pos) ==
    LET b0 == b[pos]
        c1 == b[pos + 1] - 128
        c2 == b[pos + 2] - 128
        c3 == b[pos + 3] - 128
    IN IF b0 < 128 THEN <<b0, 1>>
       ELSE IF b0 >= 194 /\ b0 <= 223
         THEN IF EsContinuacion(b, pos + 1, 128, 191)
                THEN <<(b0 - 192) * 64 + c1, 2>>
                ELSE <<Reemplazo, 1>>
       ELSE IF b0 >= 224 /\ b0 <= 239
         THEN IF ~EsContinuacion(b, pos + 1, IF b0 = 224 THEN 160 ELSE 128,
                                 IF b0 = 237 THEN 159 ELSE 191)
                THEN <<Reemplazo, 1>>
              ELSE IF ~EsContinuacion(b, pos + 2, 128, 191)
                THEN <<Reemplazo, 2>>
              ELSE <<(b0 - 224) * 4096 + c1 * 64 + c2, 3>>
       ELSE IF b0 >= 240 /\ b0 <= 244
         THEN IF ~EsContinuacion(b, pos + 1, IF b0 = 240 THEN 144 ELSE 128,
                                 IF b0 = 244 THEN 143 ELSE 191)
                THEN <<Reemplazo, 1>>
              ELSE IF ~EsContinuacion(b, pos + 2, 128, 191)
                THEN <<Reemplazo, 2>>
              ELSE IF ~EsContinuacion(b, pos + 3, 128, 191)
                THEN <<Reemplazo, 3>>
              ELSE <<(b0 - 240) * 262144 + c1 * 4096 + c2 * 64 + c3, 4>>
       ELSE <<Reemplazo, 1>>

RECURSIVE Utf8Desde(_, _)
Utf8Desde(b, pos) ==
    IF pos > Len(b) THEN <<>>
    ELSE LET r == Utf8Uno(b, pos) IN <<r[1]>> \o Utf8Desde(b, pos + r[2])

Utf8Decodificar(b) == Utf8Desde(b, 1)

\* str.isspace of one code point (what str.strip removes)
EsEspacio(c) ==
    \/ c >= 9 /\ c <= 13
    \/ c >= 28 /\ c <= 32
    \/ c \in {133, 160, 5760, 8232, 8233, 8239, 8287, 12288}
    \/ c >= 8192 /\ c <= 8202

\* not mensaje.strip()
EnBlanco(texto) == \A j \in 1..Len(texto) : EsEspacio(texto[j])

\* int.from_bytes(bloque, 'big')
RECURSIVE DeBytes(_)
DeBytes(b) ==
    IF b = <<>> THEN 0
    ELSE DeBytes(SubSeq(b, 1, Len(b) - 1)) * 256 + b[Len(b)]

\* m.to_bytes(largo, 'big')
RECURSIVE ABytes(_, _)
ABytes(m, largo) ==
    IF largo = 0 THEN <<>>
    ELSE Append(ABytes(m \div 256, largo - 1), m % 256)

\* m.to_bytes((m.bit_length() + 7) // 8, 'big')
BloqueDe(m) == ABytes(m, (BitLength(m) + 7) \div 8)

\* b''.join(bloques)
RECURSIVE Concatenar(_)
Concatenar(bs) ==
    IF bs = <<>> THEN <<>> ELSE Head(bs) \o Concatenar(Tail(bs))

\* range(start, stop, step) for step # 0
RECURSIVE Rango(_, _, _)
Rango(start, stop, step) ==
    IF (step > 0 /\ start < stop) \/ (step < 0 /\ start > stop)
      THEN <<start>> \o Rango(start + step, stop, step)
      ELSE <<>>

\* b[lo:hi] for lo >= 0
Rebanada(b, lo, hi) == SubSeq(b, lo + 1, Min(Max(hi, 0), Len(b)))

\* [bytes_msg[i:i+bloque_max] for i in range(0, len(bytes_msg), bloque_max)]
Dividir(b, limite) ==
    LET idx == Rango(0, Len(b), limite)
    IN [j \in 1..Len(idx) |-> Rebanada(b, idx[j], idx[j] + limite)]

\* bloque_max = (n.bit_length() // 8) - 1
BloqueMaxSinRestar(nn) == BitLength(nn) \div 8
BloqueMax(nn) == (BitLength(nn) \div 8) - 1

\* ----------------------------------------------------------- cifrar_mensaje
\* lines 107-111; range() raises ValueError on a step of 0, and the handler
\* of line 120 wraps it
CifrarDividir ==
    /\ pc = "cifrar"
    /\ bloque_max' = BloqueMax(clave_publica[2])
    /\ IF bloque_max' = 0
         THEN /\ error' = <<"Error al cifrar", "range() arg 3 must not be zero">>
              /\ pc' = "cifrar_falla"
              /\ UNCHANGED <<bloques, cifrados>>
         ELSE /\ bloques' = Dividir(Utf8Codificar(mensaje), bloque_max')
              /\ cifrados' = <<>>
              /\ pc' = "cifrar_bloque"
              /\ UNCHANGED error
    /\ UNCHANGED <<fase, varsPrimo, varsClaves, mensaje, clave_publica_original,
                   bloques_d, salida>>

\* lines 113-118: the next block; m >= n raises, wrapped by line 120
CifrarBloque ==
    /\ pc = "cifrar_bloque"
    /\ Len(cifrados) < Len(bloques)
    /\ LET m_bloque == DeBytes(bloques[Len(cifrados) + 1])
       IN IF m_bloque >= clave_publica[2]
            THEN /\ error' = <<"Error al cifrar", "Mensaje demasiado grande">>
                 /\ pc' = "cifrar_falla"
                 /\ UNCHANGED cifrados
            ELSE /\ cifrados' =
                      Append(cifrados, ModPow(m_bloque, clave_publica[1], clave_publica[2]))
                 /\ UNCHANGED <<pc, error>>
    /\ UNCHANGED <<fase, varsPrimo, varsClaves, mensaje, clave_publica_original,
                   bloque_max, bloques, bloques_d, salida>>

\* line 119: return cifrados; the caller hands them to descifrar_mensaje
CifrarDevolver ==
    /\ pc = "cifrar_bloque"
    /\ Len(cifrados) = Len(bloques)
    /\ pc' = "descifrar"
    /\ UNCHANGED <<fase, error, varsPrimo, varsClaves, varsCifra>>

\* -------------------------------------------------------- descifrar_mensaje
\* if clave_publica_original: ... if n != n_original
LlavesNoCoincidenInvertida(priv, orig) == orig # Ninguna /\ priv[2] = orig[2]
LlavesNoCoinciden(priv, orig) == orig # Ninguna /\ priv[2] # orig[2]

\* lines 139-145: the pairing check, raised outside the try
DescifrarVerificar ==
    /\ pc = "descifrar"
    /\ IF LlavesNoCoinciden(clave_privada, clave_publica_original)
         THEN /\ error' = <<"Las llaves no coinciden">>
              /\ pc' = "fin"
              /\ UNCHANGED bloques_d
         ELSE /\ bloques_d' = <<>>
              /\ pc' = "descifrar_bloque"
              /\ UNCHANGED error
    /\ UNCHANGED <<fase, varsPrimo, varsClaves, mensaje, clave_publica_original,
                   bloque_max, bloques, cifrados, salida>>

\* lines 146-149: the next ciphertext block
DescifrarBloque ==
    /\ pc = "descifrar_bloque"
    /\ Len(bloques_d) < Len(cifrados)
    /\ LET m_bloque == ModPow(cifrados[Len(bloques_d) + 1], clave_privada[1],
                              clave_privada[2])
       IN bloques_d' = Append(bloques_d, BloqueDe(m_bloque))
    /\ UNCHANGED <<pc, fase, error, varsPrimo, varsClaves, mensaje,
                   clave_publica_original, bloque_max, bloques, cifrados, salida>>

\* lines 150-155: decode; the ValueError of line 152 is raised inside the try
\* and so caught and wrapped by the handler of lines 154-155
DescifrarDecodificar ==
    /\ pc = "descifrar_bloque"
    /\ Len(bloques_d) = Len(cifrados)
    /\ LET texto == Utf8Decodificar(Concatenar(bloques_d))
       IN IF EnBlanco(texto)
            THEN /\ error' = <<"Error al descifrar", "Resultado vacio">>
                 /\ UNCHANGED salida
            ELSE /\ salida' = texto
                 /\ UNCHANGED error
    /\ pc' = "fin"
    /\ UNCHANGED <<fase, varsPrimo, varsClaves, mensaje, clave_publica_original,
                   bloque_max, bloques, cifrados, bloques_d>>

\* ------------------------------------------------------------ specifications
SinCifra ==
    /\ mensaje = <<>>
    /\ clave_publica_original = Ninguna
    /\ bloque_max = 0
    /\ bloques = <<>>
    /\ cifrados = <<>>
    /\ bloques_d = <<>>
    /\ salida = <<>>

SinClaves ==
    /\ bits = 0
    /\ p = 0
    /\ q = 0
    /\ phi = 0
    /\ e = 0
    /\ clave_publica = Ninguna
    /\ clave_privada = Ninguna

\* es_primo(n, k) called directly
InitPrime ==
    /\ pc = "es_primo"
    /\ fase = "main"
    /\ error = <<>>
    /\ n \in 0..MaxN
    /\ k \in 0..MaxRounds
    /\ d = 0 /\ s = 0 /\ i = 0 /\ a = 0 /\ x = 0 /\ ret = FALSE
    /\ SinClaves
    /\ SinCifra

NextPrime == EsPrimoInicio \/ EsPrimoRonda \/ EsPrimoFin

SpecPrime == InitPrime /\ [][NextPrime]_vars

\* generar_claves(bits)
InitKeys ==
    /\ pc = "generar_primo"
    /\ fase = "p"
    /\ error = <<>>
    /\ SinPrimo
    /\ bits \in 1..MaxBits
    /\ p = 0 /\ q = 0 /\ phi = 0 /\ e = 0
    /\ clave_publica = Ninguna
    /\ clave_privada = Ninguna
    /\ SinCifra

NextKeys ==
    \/ GenerarPrimoSortear
    \/ EsPrimoInicio
    \/ EsPrimoRonda
    \/ EsPrimoFin
    \/ GenerarPrimoProbar
    \/ GenerarClavesDerivar

SpecKeys == InitKeys /\ [][NextKeys]_vars

\* trial division: v is a prime number
EsPrimoDeVerdad(v) == v > 1 /\ \A t \in 2..(v - 1) : v % t # 0

\* a draw of generar_primo that hits a prime
SortearPrimo == GenerarPrimoSortear /\ EsPrimoDeVerdad(n')

\* the program keeps running, and uniform random draws that are repeated
\* without end hit a prime candidate (when there is one) sooner or later
FairSpecKeys == SpecKeys /\ WF_vars(NextKeys) /\ SF_vars(SortearPrimo)

\* cifrar_mensaje(mensaje, clave_publica), then
\* descifrar_mensaje(cifrados, clave_privada, clave_publica_original), with a
\* key pair that generar_claves can return
TamanosClave == {8, 18, 26}

\* NUL, space, 'a' and the two-byte e-acute
Caracteres == {0, 32, 97, 233}

Textos == UNION {[1..l -> Caracteres] : l \in 0..MaxLen}

\* the candidates of generar_primo(b) whose random bits are at most MaxRand
Candidatos(b) == {ForzarBits(r, b) : r \in 0..Min(Pot2(b) - 1, MaxRand)}

\* es_primo(c) returns True for some draw of its witnesses
PuedeSerPrimo(c) ==
    \/ c = 2
    \/ c = 3
    \/ /\ c > 3
       /\ \E aa \in 2..(c - 2) :
             Ronda(c, Descomponer(c - 1, 0)[1], Descomponer(c - 1, 0)[2], aa)[2]

PrimosPosibles(b) == {c \in Candidatos(b) : PuedeSerPrimo(c)}

\* public keys typed in by hand: another modulus, or another exponent
OtrasPublicas(pub) == {<<pub[1], pub[2] + 2>>, <<3, pub[2]>>}

InitCrypt ==
    /\ pc = "cifrar"
    /\ fase = "main"
    /\ error = <<>>
    /\ SinPrimo
    /\ bits \in TamanosClave
    /\ p \in PrimosPosibles(bits \div 2)
    /\ q \in PrimosPosibles(bits \div 2)
    /\ phi = Totiente(p, q)
    /\ e \in ExponentesPosibles(phi)
    /\ clave_publica = ClavePublica(p, q, e)
    /\ clave_privada = ClavePrivada(p, q, e)
    /\ mensaje \in Textos
    /\ clave_publica_original \in
          {Ninguna, clave_publica} \cup OtrasPublicas(clave_publica)
    /\ bloque_max = 0
    /\ bloques = <<>>
    /\ cifrados = <<>>
    /\ bloques_d = <<>>
    /\ salida = <<>>

NextCrypt ==
    \/ CifrarDividir
    \/ CifrarBloque
    \/ CifrarDevolver
    \/ DescifrarVerificar
    \/ DescifrarBloque
    \/ DescifrarDecodificar

SpecCrypt == InitCrypt /\ [][NextCrypt]_vars

\* ------------------------------------------------------------------ claims
\* aa is a strong liar for nn: with nn - 1 = dd * 2^ss and dd odd,
\* aa^dd = 1, or aa^(dd * 2^r) = -1 (mod nn) for some r < ss (for an even nn,
\* where ss = 0, r = 0 is tried all the same)
MentirosoFuerte(nn, aa) ==
    LET ss == CHOOSE t \in 0..nn :
                 (nn - 1) % Pot2(t) = 0 /\ ((nn - 1) \div Pot2(t)) % 2 = 1
        dd == (nn - 1) \div Pot2(ss)
    IN \/ ModPow(aa, dd, nn) = 1
       \/ \E r \in 0..(Max(ss, 1) - 1) : ModPow(aa, dd * Pot2(r), nn) = nn - 1

\* v is odd, has its top bit set and exactly b bits
Forma(v, b) == v % 2 = 1 /\ v >= Pot2(b - 1) /\ v < Pot2(b)

\* ceil(u / v) for v # 0 and u >= 0
Techo(u, v) == IF v > 0 THEN (u + v - 1) \div v ELSE 0 - (u \div (0 - v))

\* the blocks cifrar_mensaje cuts the message into (none when it raises)
BloquesDelMensaje ==
    IF BloqueMax(clave_publica[2]) = 0 THEN <<>>
    ELSE Dividir(Utf8Codificar(mensaje), BloqueMax(clave_publica[2]))

\* C1 (as claimed): descifrar_mensaje(cifrar_mensaje(M, pub), priv, pub)
\* returns exactly M for every key pair of generar_claves and every message
\* none of whose blocks begins with a zero byte.
C1_RoundTrip ==
    ( /\ pc \in {"fin", "cifrar_falla"}
      /\ clave_publica_original = clave_publica
      /\ \A j \in 1..Len(BloquesDelMensaje) : BloquesDelMensaje[j][1] # 0 )
    => (error = <<>> /\ salida = mensaje)

\* C1: the run with p = q = 257 (bits = 18) and the message "a": the text
\* that comes back is "i" followed by U+FFFD
C1_SamePrimes ==
    /\ pc = "fin"
    /\ p = 257 /\ q = 257
    /\ mensaje = <<97>>
    /\ clave_publica_original = clave_publica
    /\ error = <<>>
    /\ salida = <<105, Reemplazo>>

\* C2: when the public key handed to descifrar_mensaje has another modulus
\* than the private key, the call ends with the key-mismatch error alone,
\* with no ciphertext block processed and nothing returned, whatever the
\* ciphertext.
C2_Mismatch ==
    ( /\ pc \in {"descifrar_bloque", "fin"}
      /\ clave_publica_original # Ninguna
      /\ clave_publica_original[2] # clave_privada[2] )
    => ( /\ pc = "fin"
         /\ error = <<"Las llaves no coinciden">>
         /\ bloques_d = <<>>
         /\ salida = <<>> )

C2_Witness ==
    /\ pc = "fin"
    /\ error = <<"Las llaves no coinciden">>
    /\ Len(cifrados) = 2
    /\ clave_publica_original[1] = clave_publica[1]

\* C3 (as claimed): for n < 10000 and k >= 5, es_primo returns True exactly
\* when n is prime, whatever witnesses are drawn.
C3_Original ==
    (pc = "ret" /\ k >= 5 /\ n < 10000) => (ret = EsPrimoDeVerdad(n))

\* C3 (amended): for n < 10000 and k >= 5, es_primo returns True when n is
\* prime whatever the witnesses, and False for 0 and 1; for n > 3 a round is
\* passed only by a strong liar for n and a False is returned only for a
\* composite n on a witness that is not a strong liar: a composite n gets
\* True exactly when every witness drawn is a strong liar.
C3_Amended ==
    (k >= 5 /\ n < 10000)
    => /\ (pc = "ret" /\ EsPrimoDeVerdad(n)) => ret
       /\ (pc = "ret" /\ n <= 1) => ~ret
       /\ (n > 3 /\ ((pc = "rondas" /\ i >= 1) \/ (pc = "ret" /\ ret)))
             => MentirosoFuerte(n, a)
       /\ (n > 3 /\ pc = "ret" /\ ~ret)
             => (~MentirosoFuerte(n, a) /\ ~EsPrimoDeVerdad(n))

\* the composite 25 passes all k >= 5 rounds (its liars are 7 and 18)
C3_Witness == pc = "ret" /\ n = 25 /\ k >= 5 /\ i = k /\ ret /\ a = 7

\* C4: every block cifrar_mensaje cuts has an integer value below the
\* modulus, and the "message too large" error is never raised.
C4_BlockSizing ==
    /\ \A j \in 1..Len(bloques) : DeBytes(bloques[j]) < clave_publica[2]
    /\ error # <<"Error al cifrar", "Mensaje demasiado grande">>

\* two full two-byte blocks, the first one the two bytes of e-acute
C4_Witness ==
    /\ pc = "descifrar"
    /\ bloque_max = 2
    /\ Len(bloques) = 2
    /\ DeBytes(bloques[1]) = 50089
    /\ Len(cifrados) = 2

\* C5 (as claimed): when cifrar_mensaje returns, the K bytes of the message
\* were cut into ceil(K / bloque_max) blocks of at most bloque_max bytes
\* whose concatenation is the message, and the ciphertext has one integer
\* per block, in order.
C5_Split ==
    pc = "descifrar"
    => LET b == Utf8Codificar(mensaje)
       IN /\ Len(bloques) = Techo(Len(b), bloque_max)
          /\ \A j \in 1..Len(bloques) : Len(bloques[j]) <= bloque_max
          /\ Concatenar(bloques) = b
          /\ Len(cifrados) = Len(bloques)
          /\ \A j \in 1..Len(bloques) :
                cifrados[j] =
                   ModPow(DeBytes(bloques[j]), clave_publica[1], clave_publica[2])

\* C5: with the 7-bit modulus 121 the limit is -1 and a non-empty message
\* is encrypted to no block at all
C5_NoBlocks ==
    /\ pc = "descifrar"
    /\ clave_publica[2] = 121
    /\ bloque_max = 0 - 1
    /\ mensaje = <<97>>
    /\ bloques = <<>>
    /\ cifrados = <<>>

C7_ErrorKinds ==
    (pc = "fin" /\ ~LlavesNoCoinciden(clave_privada, clave_publica_original))
    => /\ EnBlanco(Utf8Decodificar(Concatenar(bloques_d)))
             => error = <<"Resultado vacio">>
       /\ (error = <<>>) => ~EnBlanco(salida)

\* C7: the empty result comes out wrapped in the generic decryption error
C7_Wrapped ==
    /\ pc = "fin"
    /\ clave_publica_original = clave_publica
    /\ mensaje = <<32>>
    /\ bloques_d = <<<<32>>>>
    /\ error = <<"Error al descifrar", "Resultado vacio">>

\* C8 (as claimed): for every bits >= 1, generar_claves(bits) eventually
\* returns, without raising, with p and q odd, top bit set and of exactly
\* bits // 2 bits.
C8_Original ==
    (bits >= 1) ~> ( /\ pc = "fin"
                     /\ error = <<>>
                     /\ Forma(p, bits \div 2)
                     /\ Forma(q, bits \div 2) )

\* C8 (amended): for every bits >= 4 (odd ones included), generar_claves
\* eventually returns with p and q odd, top bit set and of exactly bits // 2
\* bits, and it never raises.
C8_Amended ==
    /\ (bits >= 4) ~> ( /\ pc = "fin"
                        /\ error = <<>>
                        /\ Forma(p, bits \div 2)
                        /\ Forma(q, bits \div 2) )
    /\ []((bits >= 4) => (error = <<>>))

C8_Witness ==
    /\ pc = "fin"
    /\ error = <<>>
    /\ bits = 7
    /\ p = 5 /\ q = 7

\* C9: es_primo returns False only for n <= 1 or a composite n, for every
\* number of rounds and every draw of the witnesses.
C9_OneSided == (pc = "ret" /\ ~ret) => (n <= 1 \/ ~EsPrimoDeVerdad(n))

\* the prime 7, where s = 1 and no squaring runs, after all its rounds
C9_Witness == pc = "ret" /\ ret /\ n = 7 /\ s = 1 /\ k = MaxRounds /\ i = k

\* C10 (as claimed): the primes p and q of a returned key pair differ.
C10_Distinct == (pc = "fin" /\ error = <<>>) => p # q

\* C10: both draws gave 29
C10_SamePrime == pc = "fin" /\ error = <<>> /\ p = 29 /\ q = 29

====
